---- MODULE Spec2Model ----
(***************************************************************************)
(* Model of the LLM configuration subsystem of wren-ui:                    *)
(*   ConfigService  (services/configService.ts): readConfig, writeConfig   *)
(*   ConfigResolver (resolver, src/unnamed/part_001): getLLMConfig,        *)
(*     updateLLMConfig, testLLMConnection, switchLLMNow, maskSecrets,      *)
(*     chooseEnvVarName, writeEnvVar.                                      *)
(*                                                                         *)
(* Texts.  The secrets file ~/.wrenai/.env is a sequence of lines, a line  *)
(* a sequence of tokens.  A token is "=", "#", " " or a maximal run of     *)
(* other characters (a name or a piece of a value), so that trim(),        *)
(* indexOf('='), startsWith('#') and slice() are computed as the code      *)
(* computes them.                                                          *)
(*                                                                         *)
(* YAML.  A configuration file is absent, unparseable ("garbage") or a     *)
(* stream of YAML documents.  A document is [seq, f]: f is a mapping from  *)
(* field names to values, and seq = TRUE says that the document is a YAML  *)
(* block sequence holding that one mapping (what "- type: llm ..." parses  *)
(* to) rather than the mapping itself.  Field values are strings; the      *)
(* value of "models" is a sequence of mappings.  The JSON booleans of the  *)
(* request field persistKey are the values JTrue and JFalse.               *)
(*                                                                         *)
(* Specifications.  Spec: the operations one after the other, each a whole *)
(* handler.  SpecMask: getLLMConfig over documents with secrets.  SpecEnv: *)
(* sequences of writeEnvVar calls.  SpecRace: concurrent updateLLMConfig   *)
(* calls, interleaved at their awaits.                                     *)
(***************************************************************************)
EXTENDS Integers, Sequences, FiniteSets, TLC

VARIABLES
    overrideSet,  \* process.env.PROJECT_CONFIG_PATH is set
    homeOk,       \* ~/.wrenai can be created and written
    files,        \* configuration files, by location
    envFile,      \* ~/.wrenai/.env: [exists, lines]
    procEnv,      \* process.env, for the names the resolver looks up
    last,         \* the last operation: arguments, state before, outcome
    envLog,       \* the writeEnvVar calls that wrote the file, oldest first
    env0,         \* the secrets file the run started from
    nops,         \* operations run so far
    calls         \* the updateLLMConfig calls in flight, each at one of its awaits

vars == <<overrideSet, homeOk, files, envFile, procEnv, last, envLog, env0, nops, calls>>

----------------------------------------------------------------------------
(* Bounds                                                                  *)

MaxOps == 3

MaxWrites == 3

MaxCalls == 2

----------------------------------------------------------------------------
(* Generic helpers                                                         *)

EmptyMap == [k \in {} |-> ""]

Has(m, k) == k \in DOMAIN m

\* JS truthiness of a (string-valued) property; a missing property is undefined
Truthy(m, k) == Has(m, k) /\ m[k] # ""

\* { ...a, ...b }
Spread(a, b) == [k \in DOMAIN a \cup DOMAIN b |-> IF k \in DOMAIN b THEN b[k] ELSE a[k]]

\* delete m[k]
Delete(m, k) == [j \in DOMAIN m \ {k} |-> m[j]]

Range(s) == {s[i] : i \in DOMAIN s}

----------------------------------------------------------------------------
(* Secrets file: writeEnvVar                                               *)

RECURSIVE TrimLeft(_)
TrimLeft(t) == IF t # <<>> /\ Head(t) = " " THEN TrimLeft(Tail(t)) ELSE t

RECURSIVE TrimRight(_)
TrimRight(t) ==
    IF t # <<>> /\ t[Len(t)] = " " THEN TrimRight(SubSeq(t, 1, Len(t) - 1)) ELSE t

\* String.prototype.trim
Trim(t) == TrimRight(TrimLeft(t))

\* line.indexOf('='), 0-based, -1 when there is none
IndexOfEq(line) ==
    IF \E i \in 1..Len(line) : line[i] = "="
    THEN (CHOOSE i \in 1..Len(line) :
            line[i] = "=" /\ \A j \in 1..(i - 1) : line[j] # "=") - 1
    ELSE -1

\* the lines of the file: content.split(/\r?\n/).filter(Boolean)
SplitLines(content) == SelectSeq(content, LAMBDA l : l # <<>>)

\* kv[k] = v on an insertion-ordered object
KvSet(kv, k, v) ==
    IF \E i \in 1..Len(kv) : kv[i].k = k
    THEN [i \in 1..Len(kv) |-> IF kv[i].k = k THEN [k |-> k, v |-> v] ELSE kv[i]]
    ELSE Append(kv, [k |-> k, v |-> v])

\* the parse loop of writeEnvVar: comment lines and lines without a key are skipped
RECURSIVE ParseEnv(_, _)
ParseEnv(lines, kv) ==
    IF lines = <<>> THEN kv
    ELSE LET line == Head(lines)
             t    == Trim(line)
             idx  == IndexOfEq(line)
         IN  IF t # <<>> /\ Head(t) = "#" THEN ParseEnv(Tail(lines), kv)
             ELSE IF idx > 0
                  THEN ParseEnv(Tail(lines),
                                KvSet(kv, Trim(SubSeq(line, 1, idx)),
                                          Trim(SubSeq(line, idx + 2, Len(line)))))
                  ELSE ParseEnv(Tail(lines), kv)

\* Object.entries(kv).map(([k, v]) => `${k}=${v}`), one line per entry
Serialize(kv) == [i \in 1..Len(kv) |-> kv[i].k \o <<"=">> \o kv[i].v]

\* writeEnvVar, were it to write the given key alone
WriteEnvVarDropOthers(content, varName, value) ==
    Serialize(<<[k |-> varName, v |-> value]>>)

\* the new content of the secrets file after writeEnvVar(varName, value)
WriteEnvVarText(content, varName, value) ==
    Serialize(KvSet(ParseEnv(SplitLines(content), <<>>), varName, value))

\* the key -> value mapping a secrets file denotes (its KEY=VALUE lines, last one wins)
EnvKeys(content) == {e.k : e \in Range(ParseEnv(SplitLines(content), <<>>))}

EnvValue(content, k) ==
    LET kv == ParseEnv(SplitLines(content), <<>>)
    IN  (CHOOSE e \in Range(kv) : e.k = k).v

\* writeEnvVar on the file: mkdir (errors swallowed), readFile (a missing file reads as
\* ''), then writeFile, whose error is the caller's. Result: [env, raised, wrote]
WriteEnvVar(env, hok, varName, value) ==
    IF ~hok THEN [env |-> env, raised |-> TRUE, wrote |-> FALSE]
    ELSE [env |-> [exists |-> TRUE,
                   lines |-> WriteEnvVarText(IF env.exists THEN env.lines ELSE <<>>,
                                             varName, value)],
          raised |-> FALSE, wrote |-> TRUE]

----------------------------------------------------------------------------
(* YAML documents and configuration files                                  *)

JTrue == "<true>"

JFalse == "<false>"

Absent == [st |-> "absent", docs |-> <<>>]

Garbage == [st |-> "garbage", docs |-> <<>>]

Yaml(docs) == [st |-> "yaml", docs |-> docs]

MapDoc(f) == [seq |-> FALSE, f |-> f]

SeqDoc(f) == [seq |-> TRUE, f |-> f]

\* yaml.loadAll(raw) succeeds
Parses(raw) == raw.st = "yaml"

\* yaml.loadAll(raw), when it succeeds
LoadAll(raw) == raw.docs

\* docs.map(d => yaml.dump(d)).join('---\n'): the text that loads as docs again
DumpAll(docs) == Yaml(docs)

\* the mapping of the default file of readConfig
DefaultEntry ==
    [type |-> "llm", provider |-> "openai", api_base |-> "https://api.openai.com/v1",
     models |-> <<[model |-> "gpt-4o-mini"]>>, active_model |-> "gpt-4o-mini"]

\* defaultYaml: "---\n- type: llm\n  provider: openai\n ...": one YAML document,
\* and that document is a block sequence ("- ") with the mapping as its only item
DefaultYaml == Yaml(<<SeqDoc(DefaultEntry)>>)

\* DEFAULT_CONFIG_PATH = process.env.PROJECT_CONFIG_PATH || <cwd>/config.yaml
DefaultConfigPath(ov) == IF ov THEN "override" ELSE "project"

\* [PROJECT_CONFIG_PATH, homedirConfig, DEFAULT_CONFIG_PATH, <cwd>/../config.yaml].filter(Boolean)
Candidates(ov) ==
    IF ov THEN <<"override", "home", DefaultConfigPath(ov), "parent">>
    ELSE <<"home", DefaultConfigPath(ov), "parent">>

Locations == {"override", "home", "project", "parent"}

\* the migration block of readConfig, run right after readFile(p) for p = DEFAULT_CONFIG_PATH:
\* nothing when ~/.wrenai/config.yaml is accessible; else copy, then unlink the source;
\* a failing mkdir/writeFile is swallowed and leaves everything in place
Migrate(fs, ov, hok, raw) ==
    IF fs["home"].st # "absent" THEN fs
    ELSE IF ~hok THEN fs
    ELSE [fs EXCEPT !["home"] = raw, ![DefaultConfigPath(ov)] = Absent]

\* the loop of readConfig over the candidates left, then the default creation.
\* Result: [fs, raised, docs, from]
RECURSIVE ReadLoop(_, _, _, _)
ReadLoop(cands, fs, ov, hok) ==
    IF cands = <<>>
    THEN IF hok
         THEN [fs |-> [fs EXCEPT !["home"] = DefaultYaml], raised |-> FALSE,
               docs |-> LoadAll(DefaultYaml), from |-> "default"]
         ELSE [fs |-> fs, raised |-> TRUE, docs |-> <<>>, from |-> "none"]
    ELSE LET p == Head(cands)
         IN  IF fs[p].st = "absent" THEN ReadLoop(Tail(cands), fs, ov, hok)
             ELSE LET raw == fs[p]
                      fs1 == IF p = DefaultConfigPath(ov) THEN Migrate(fs, ov, hok, raw)
                             ELSE fs
                  IN  IF Parses(raw)
                      THEN [fs |-> fs1, raised |-> FALSE, docs |-> LoadAll(raw), from |-> p]
                      ELSE ReadLoop(Tail(cands), fs1, ov, hok)

\* ConfigService.readConfig
ReadConfig(fs, ov, hok) == ReadLoop(Candidates(ov), fs, ov, hok)

\* d?.type === 'llm' (a document that is a list has no type)
IsLlm(d) == ~d.seq /\ Has(d.f, "type") /\ d.f["type"] = "llm"

HasLlm(docs) == \E i \in 1..Len(docs) : IsLlm(docs[i])

\* a write of the canonical file without the llm check
WriteConfigNoValidation(fs, hok, docs) ==
    IF ~hok THEN [fs |-> fs, raised |-> TRUE]
    ELSE [fs |-> [fs EXCEPT !["home"] = DumpAll(docs)], raised |-> FALSE]

\* ConfigService.writeConfig. Result: [fs, raised]
WriteConfig(fs, hok, docs) ==
    IF ~HasLlm(docs) THEN [fs |-> fs, raised |-> TRUE]
    ELSE IF ~hok THEN [fs |-> fs, raised |-> TRUE]
    ELSE [fs |-> [fs EXCEPT !["home"] = DumpAll(docs)], raised |-> FALSE]

----------------------------------------------------------------------------
(* Strings the resolver inspects                                           *)

\* s.toLowerCase(), for the provider strings of the model
LowerCase(s) == IF s = "Azure" THEN "azure" ELSE s

\* the words of interest that a (lower-case) string contains: s.includes(w) is w \in Words(s)
Words(s) ==
    CASE s = "azure" -> {"azure"}
      [] s = "azure-deepseek" -> {"azure", "deepseek"}
      [] s = "deepseek" -> {"deepseek"}
      [] s = "openrouter" -> {"openrouter"}
      [] s = "ollama" -> {"ollama"}
      [] s = "google" -> {"google"}
      [] s = "vertex_ai" -> {"vertex"}
      [] s = "https://res.openai.azure.com" -> {".openai.azure.com"}
      [] s = "https://openrouter.ai/api" -> {"openrouter"}
      [] OTHER -> {}

Includes(s, w) == w \in Words(s)

\* the text of a key value as tokens of a line of the secrets file
Tokens(s) == IF s = "sk=2" THEN <<"sk", "=", "2">> ELSE <<s>>

----------------------------------------------------------------------------
(* ConfigResolver: pure parts                                              *)

SecretKeys == {"api_key", "apiKey", "key", "secret", "password", "token"}

Marker == "*****"

\* secretKeys.forEach(k => { if (m[k]) m[k] = '*****' })
MaskFields(m) ==
    [k \in DOMAIN m |-> IF k \in SecretKeys /\ m[k] # "" THEN Marker ELSE m[k]]

\* maskSecrets, were it to leave the elements of models as they are
MaskMappingTopOnly(m) ==
    [k \in DOMAIN m |->
        IF k = "models" THEN m[k]
        ELSE IF k \in SecretKeys /\ m[k] # "" THEN Marker ELSE m[k]]

\* the masked copy of a mapping: each element of models, then the top level
MaskMapping(m) ==
    [k \in DOMAIN m |->
        IF k = "models" THEN [i \in 1..Len(m[k]) |-> MaskFields(m[k][i])]
        ELSE IF k \in SecretKeys /\ m[k] # "" THEN Marker ELSE m[k]]

\* maskSecrets(doc): a document that is a list has no models and no secret-named property
MaskSecrets(d) == IF d.seq THEN d ELSE MapDoc(MaskMapping(d.f))

\* chooseEnvVarName(doc)
ChooseEnvVarName(doc) ==
    LET provider == IF Has(doc, "provider") THEN LowerCase(doc["provider"]) ELSE ""
    IN  IF \/ Includes(provider, "azure")
           \/ Truthy(doc, "api_version")
           \/ (Truthy(doc, "api_base") /\ Includes(doc["api_base"], ".openai.azure.com"))
        THEN "AZURE_OPENAI_API_KEY"
        ELSE IF Includes(provider, "deepseek") THEN "DEEPSEEK_API_KEY"
        ELSE IF Includes(provider, "openrouter") THEN "OPENROUTER_API_KEY"
        ELSE IF Includes(provider, "ollama") THEN "OLLAMA_API_KEY"
        ELSE IF Includes(provider, "google") \/ Includes(provider, "vertex")
             THEN "GOOGLE_API_KEY"
        ELSE "OPENAI_API_KEY"

\* incoming.persistKey !== false
WantsPersist(incoming) == ~(Has(incoming, "persistKey") /\ incoming["persistKey"] = JFalse)

\* incoming.api_key || incoming.apiKey is truthy
CarriesKey(incoming) == Truthy(incoming, "api_key") \/ Truthy(incoming, "apiKey")

\* incoming.api_key || incoming.apiKey
KeyValue(incoming) ==
    IF Truthy(incoming, "api_key") THEN incoming["api_key"] ELSE incoming["apiKey"]

\* incoming after the persistKey block of updateLLMConfig, the write to the secrets
\* file having succeeded when there was one
Sanitized(incoming) ==
    IF ~WantsPersist(incoming)
    THEN Delete(Delete(Delete(incoming, "api_key"), "apiKey"), "api_key_env")
    ELSE IF CarriesKey(incoming)
         THEN Delete(Delete(Spread(incoming, [api_key_env |-> ChooseEnvVarName(incoming)]),
                            "api_key"), "apiKey")
         ELSE incoming

\* the merge, were the update to replace the entry
MergedReplace(d, incoming) == incoming

\* { ...d, ...incoming }, active_model of d kept when incoming has none
Merged(d, incoming) ==
    LET merged == Spread(d, incoming)
    IN  IF ~Has(incoming, "active_model") /\ Truthy(d, "active_model")
        THEN [merged EXCEPT !["active_model"] = d["active_model"]]
        ELSE merged

\* docs.map(...) of updateLLMConfig, then the push when no llm document was replaced
NewDocs(docs, incoming) ==
    LET mapped == [i \in 1..Len(docs) |->
                     IF IsLlm(docs[i]) THEN MapDoc(Merged(docs[i].f, incoming)) ELSE docs[i]]
    IN  IF HasLlm(docs) THEN mapped ELSE Append(mapped, MapDoc(incoming))

\* getLLMConfig, given the documents read
MaskedView(docs) ==
    LET llmDocs == SelectSeq(docs, IsLlm)
        shown   == IF llmDocs # <<>> THEN llmDocs ELSE docs
    IN  [i \in 1..Len(shown) |-> MaskSecrets(shown[i])]

FallbackNames ==
    <<"AZURE_OPENAI_API_KEY", "OPENAI_API_KEY", "DEEPSEEK_API_KEY", "OPENROUTER_API_KEY">>

\* process.env[name]; "" stands for undefined
EnvLookup(penv, name) == IF name \in DOMAIN penv THEN penv[name] ELSE ""

\* process.env[a] || process.env[b] || ...
RECURSIVE FirstEnv(_, _)
FirstEnv(names, penv) ==
    IF names = <<>> THEN ""
    ELSE IF EnvLookup(penv, Head(names)) # "" THEN EnvLookup(penv, Head(names))
    ELSE FirstEnv(Tail(names), penv)

\* the key resolution, were the env var reference to come before the payload's key
ResolveKeyReferenceFirst(data, penv) ==
    LET k1 == IF Truthy(data, "api_key_env") THEN EnvLookup(penv, data["api_key_env"])
              ELSE ""
        k2 == IF k1 = "" /\ CarriesKey(data) THEN KeyValue(data) ELSE k1
    IN  IF k2 = "" THEN FirstEnv(FallbackNames, penv) ELSE k2

\* the key resolution of testLLMConnection; "" when nothing resolves
ResolveKey(data, penv) ==
    LET k1 == IF CarriesKey(data) THEN KeyValue(data) ELSE ""
        k2 == IF k1 = "" /\ Truthy(data, "api_key_env")
              THEN EnvLookup(penv, data["api_key_env"])
              ELSE k1
    IN  IF k2 = "" THEN FirstEnv(FallbackNames, penv) ELSE k2

----------------------------------------------------------------------------
(* Inputs                                                                  *)

LlmHome == [type |-> "llm", provider |-> "openai", active_model |-> "m1",
            models |-> <<[model |-> "m1"]>>]

LlmRaw == [type |-> "llm", provider |-> "openai", api_key |-> "old", active_model |-> "m1"]

LlmOther == [type |-> "llm", provider |-> "ollama", api_key_env |-> "OLLAMA_API_KEY"]

Embedder == [type |-> "embedder", provider |-> "openai"]

NoFiles == [l \in Locations |-> Absent]

\* the configuration files the runs start from, with PROJECT_CONFIG_PATH unset
FilesNoOverride ==
    { NoFiles,
      [NoFiles EXCEPT !["home"] = Yaml(<<MapDoc(LlmHome)>>)],
      [NoFiles EXCEPT !["home"] = Yaml(<<MapDoc(Embedder), MapDoc(LlmRaw)>>)],
      [NoFiles EXCEPT !["home"] = Yaml(<<MapDoc(Embedder)>>)],
      [NoFiles EXCEPT !["project"] = Yaml(<<MapDoc(LlmHome)>>)],
      [NoFiles EXCEPT !["project"] = Garbage, !["parent"] = Yaml(<<MapDoc(LlmOther)>>)],
      [NoFiles EXCEPT !["home"] = Garbage, !["project"] = Yaml(<<MapDoc(LlmOther)>>)],
      [NoFiles EXCEPT !["parent"] = Yaml(<<MapDoc(LlmOther)>>)],
      [NoFiles EXCEPT !["home"] = Yaml(<<MapDoc(LlmHome), MapDoc(Embedder),
                                         MapDoc(LlmOther)>>)] }

\* the configuration files the runs start from, with PROJECT_CONFIG_PATH set
FilesOverride ==
    { [NoFiles EXCEPT !["override"] = Yaml(<<MapDoc(LlmOther)>>)],
      [NoFiles EXCEPT !["override"] = Yaml(<<MapDoc(LlmOther)>>),
                      !["home"] = Yaml(<<MapDoc(LlmHome)>>)],
      [NoFiles EXCEPT !["home"] = Yaml(<<MapDoc(LlmHome)>>)] }

NoEnvFile == [exists |-> FALSE, lines |-> <<>>]

\* a secrets file with a comment, a blank line, blanks around key and value, a value
\* holding "=", and a key given twice
OldEnvFile ==
    [exists |-> TRUE,
     lines |-> << <<"#", " ", "keys">>,
                  <<"OTHER", " ", "=", " ", "v1", " ">>,
                  <<>>,
                  <<"OPENAI_API_KEY", "=", "old">>,
                  <<"TOKEN", "=", "a", "=", "b">>,
                  <<"OPENAI_API_KEY", "=", "old2">> >>]

EnvNames ==
    {"AZURE_OPENAI_API_KEY", "OPENAI_API_KEY", "DEEPSEEK_API_KEY", "OPENROUTER_API_KEY",
     "OLLAMA_API_KEY", "GOOGLE_API_KEY"}

NoProcEnv == [n \in EnvNames |-> ""]

\* the secrets file and the process environment the runs start from
Surroundings ==
    { [env |-> NoEnvFile, penv |-> NoProcEnv],
      [env |-> OldEnvFile,
       penv |-> [NoProcEnv EXCEPT !["OPENAI_API_KEY"] = "envkey",
                                  !["DEEPSEEK_API_KEY"] = "dkey"]],
      [env |-> NoEnvFile,
       penv |-> [NoProcEnv EXCEPT !["AZURE_OPENAI_API_KEY"] = "akey",
                                  !["OPENROUTER_API_KEY"] = "rkey"]] }

\* the payloads of updateLLMConfig
Updates ==
    { [type |-> "llm", provider |-> "openai", api_key |-> "sk1", persistKey |-> JTrue],
      [type |-> "llm", provider |-> "Azure", apiKey |-> "sk=2"],
      [type |-> "llm", provider |-> "openai", api_key |-> "sk1",
       api_key_env |-> "OPENAI_API_KEY", persistKey |-> JFalse],
      [provider |-> "deepseek", api_key |-> "sk1"],
      [type |-> "llm", active_model |-> "m2", models |-> <<[model |-> "m2"]>>,
       persistKey |-> JFalse],
      [provider |-> "openrouter", api_base |-> "https://openrouter.ai/api"] }

\* the payloads of testLLMConnection
Tests ==
    { [provider |-> "openai", api_key |-> "sk1", api_key_env |-> "OPENAI_API_KEY"],
      [provider |-> "openai", api_key_env |-> "OPENAI_API_KEY"],
      [provider |-> "google", api_key_env |-> "GOOGLE_API_KEY"],
      [provider |-> "Azure", api_key_env |-> "AZURE_OPENAI_API_KEY"],
      [provider |-> "openai"] }

\* the payloads of switchLLMNow
Switches == { [active_model |-> "m2"] }

\* what the runtime adaptor does on switchLLMNow
AdaptorOutcomes == {"ok", "unsupported", "throws"}

\* the document sets handed to writeConfig directly
WriteArgs == { <<>>, <<MapDoc(Embedder)>>, <<MapDoc(Embedder), MapDoc(LlmOther)>> }

----------------------------------------------------------------------------
(* State machine                                                           *)

\* a call of updateLLMConfig that has not begun: the await it is at (pc), its payload
\* (u), incoming, the text writeEnvVar read (content), the documents readConfig
\* returned (docs); since: the calls that wrote the configuration after this one read
\* it; lastW: this call wrote the configuration last
IdleCall ==
    [pc |-> "idle", u |-> EmptyMap, incoming |-> EmptyMap, content |-> <<>>,
     docs |-> <<>>, since |-> {}, lastW |-> FALSE]

Calls == 1..MaxCalls

NoCalls == [c \in Calls |-> IdleCall]

NoOp ==
    [op |-> "init", admin |-> FALSE, arg |-> EmptyMap, raised |-> FALSE,
     incoming |-> EmptyMap, docs |-> <<>>, out |-> <<>>, from |-> "none", key |-> "",
     resOk |-> FALSE, wroteEnv |-> FALSE, preFiles |-> NoFiles, preEnv |-> NoEnvFile]

Init ==
    /\ overrideSet \in BOOLEAN
    /\ homeOk \in BOOLEAN
    /\ files \in (IF overrideSet THEN FilesOverride ELSE FilesNoOverride)
    /\ \E s \in Surroundings : envFile = s.env /\ procEnv = s.penv
    /\ last = [NoOp EXCEPT !.preFiles = files, !.preEnv = envFile]
    /\ envLog = <<>>
    /\ env0 = envFile
    /\ nops = 0
    /\ calls = NoCalls

\* what every operation records of the state it started from
Began(op, admin, arg) ==
    [NoOp EXCEPT !.op = op, !.admin = admin, !.arg = arg,
                 !.preFiles = files, !.preEnv = envFile]

Step == nops < MaxOps /\ nops' = nops + 1

Frame == UNCHANGED <<overrideSet, homeOk, procEnv, env0, calls>>

\* ConfigService.readConfig, called on its own
ReadConfigCall ==
    /\ Step /\ Frame
    /\ LET r == ReadConfig(files, overrideSet, homeOk)
       IN  /\ files' = r.fs
           /\ last' = [Began("read", TRUE, EmptyMap) EXCEPT
                          !.raised = r.raised, !.docs = r.docs, !.out = r.docs,
                          !.from = r.from]
    /\ UNCHANGED <<envFile, envLog>>

\* ConfigService.writeConfig, called on its own
WriteConfigCall ==
    /\ Step /\ Frame
    /\ \E docs \in WriteArgs :
         LET w == WriteConfig(files, homeOk, docs)
         IN  /\ files' = w.fs
             /\ last' = [Began("write", TRUE, EmptyMap) EXCEPT
                            !.raised = w.raised, !.docs = docs, !.out = docs]
    /\ UNCHANGED <<envFile, envLog>>

\* ConfigResolver.getLLMConfig
GetLLMConfig ==
    /\ Step /\ Frame
    /\ LET r == ReadConfig(files, overrideSet, homeOk)
       IN  /\ files' = r.fs
           /\ last' = [Began("get", FALSE, EmptyMap) EXCEPT
                          !.raised = r.raised, !.docs = r.docs, !.from = r.from,
                          !.out = IF r.raised THEN <<>> ELSE MaskedView(r.docs)]
    /\ UNCHANGED <<envFile, envLog>>

\* the persistKey block, were the catch to swallow a failed writeEnvVar
SecretStepSwallowing(u, env, hok) ==
    IF WantsPersist(u) /\ CarriesKey(u)
    THEN [WriteEnvVar(env, hok, <<ChooseEnvVarName(u)>>, Tokens(KeyValue(u)))
             EXCEPT !.raised = FALSE]
    ELSE [env |-> env, raised |-> FALSE, wrote |-> FALSE]

\* the persistKey block of updateLLMConfig: the secrets file after it, and whether it
\* raised. Result: [env, raised, wrote]
SecretStep(u, env, hok) ==
    IF WantsPersist(u) /\ CarriesKey(u)
    THEN WriteEnvVar(env, hok, <<ChooseEnvVarName(u)>>, Tokens(KeyValue(u)))
    ELSE [env |-> env, raised |-> FALSE, wrote |-> FALSE]

\* ConfigResolver.updateLLMConfig; envOk: fs.writeFile of ~/.wrenai/.env succeeds
\* (the file may be unwritable while the directory and config.yaml are writable)
UpdateLLMConfig ==
    /\ Step /\ Frame
    /\ \E u \in Updates, admin \in BOOLEAN, envOk \in BOOLEAN :
         LET b  == Began("update", admin, u)
             e  == SecretStep(u, envFile, homeOk /\ envOk)
             r  == ReadConfig(files, overrideSet, homeOk)
             nd == NewDocs(r.docs, Sanitized(u))
             w  == WriteConfig(r.fs, homeOk, nd)
         IN  IF ~admin
             THEN /\ last' = [b EXCEPT !.raised = TRUE]
                  /\ UNCHANGED <<files, envFile, envLog>>
             ELSE IF e.raised
             THEN /\ last' = [b EXCEPT !.raised = TRUE]
                  /\ UNCHANGED <<files, envFile, envLog>>
             ELSE /\ envFile' = e.env
                  /\ envLog' = IF e.wrote
                               THEN Append(envLog, [k |-> <<ChooseEnvVarName(u)>>,
                                                    v |-> Tokens(KeyValue(u))])
                               ELSE envLog
                  /\ IF r.raised
                     THEN /\ files' = r.fs
                          /\ last' = [b EXCEPT !.raised = TRUE, !.wroteEnv = e.wrote,
                                               !.incoming = Sanitized(u)]
                     ELSE /\ files' = w.fs
                          /\ last' = [b EXCEPT !.raised = w.raised, !.wroteEnv = e.wrote,
                                               !.incoming = Sanitized(u), !.docs = r.docs,
                                               !.from = r.from, !.out = nd]

\* the Azure branch of testLLMConnection is taken
AzureLike(data) ==
    \/ Includes(IF Has(data, "provider") THEN LowerCase(data["provider"]) ELSE "", "azure")
    \/ Truthy(data, "api_version")
    \/ (Truthy(data, "api_base") /\ Includes(data["api_base"], ".openai.azure.com"))

\* models[0]?.model is truthy
HasFirstModel(data) ==
    /\ Has(data, "models")
    /\ data["models"] # <<>>
    /\ Truthy(data["models"][1], "model")

\* ConfigResolver.testLLMConnection: the key it resolves; no key, or an Azure test
\* without a deployment, ends without a request; else the probe decides
TestLLMConnection ==
    /\ Step /\ Frame
    /\ \E data \in Tests, netOk \in BOOLEAN :
         LET key == ResolveKey(data, procEnv)
         IN  last' = [Began("test", FALSE, data) EXCEPT
                        !.key = key,
                        !.resOk = /\ key # ""
                                  /\ (AzureLike(data) => HasFirstModel(data))
                                  /\ netOk]
    /\ UNCHANGED <<files, envFile, envLog>>

\* docs.find(d => d && d.type === 'llm'), or the new { type: 'llm' }
FindLlm(docs) ==
    IF HasLlm(docs)
    THEN docs[CHOOSE i \in 1..Len(docs) :
                IsLlm(docs[i]) /\ \A j \in 1..(i - 1) : ~IsLlm(docs[j])].f
    ELSE [type |-> "llm"]

\* switchLLMNow, were it to store the merged entry
SwitchLLMNowPersisting ==
    /\ Step /\ Frame
    /\ \E u \in Switches, admin \in BOOLEAN, adaptor \in AdaptorOutcomes :
         LET b == Began("switch", admin, u)
             r == ReadConfig(files, overrideSet, homeOk)
             w == WriteConfigNoValidation(r.fs, homeOk, <<MapDoc(Spread(FindLlm(r.docs), u))>>)
         IN  IF ~admin
             THEN /\ last' = [b EXCEPT !.raised = TRUE]
                  /\ UNCHANGED files
             ELSE /\ files' = IF r.raised THEN r.fs ELSE w.fs
                  /\ last' = IF r.raised THEN [b EXCEPT !.raised = TRUE]
                             ELSE [b EXCEPT !.docs = r.docs, !.from = r.from,
                                            !.incoming = u,
                                            !.out = <<MapDoc(Spread(FindLlm(r.docs), u))>>,
                                            !.resOk = (adaptor = "ok")]
    /\ UNCHANGED <<envFile, envLog>>

\* ConfigResolver.switchLLMNow
SwitchLLMNow ==
    /\ Step /\ Frame
    /\ \E u \in Switches, admin \in BOOLEAN, adaptor \in AdaptorOutcomes :
         LET b == Began("switch", admin, u)
             r == ReadConfig(files, overrideSet, homeOk)
         IN  IF ~admin
             THEN /\ last' = [b EXCEPT !.raised = TRUE]
                  /\ UNCHANGED files
             ELSE /\ files' = r.fs
                  /\ last' = IF r.raised THEN [b EXCEPT !.raised = TRUE]
                             ELSE [b EXCEPT !.docs = r.docs, !.from = r.from,
                                            !.incoming = u,
                                            !.out = <<MapDoc(Spread(FindLlm(r.docs), u))>>,
                                            !.resOk = (adaptor = "ok")]
    /\ UNCHANGED <<envFile, envLog>>

Next ==
    \/ ReadConfigCall
    \/ WriteConfigCall
    \/ GetLLMConfig
    \/ UpdateLLMConfig
    \/ TestLLMConnection
    \/ SwitchLLMNow

Spec == Init /\ [][Next]_vars

----------------------------------------------------------------------------
(* Vocabulary of the properties                                            *)

\* the documents stored at the canonical path ~/.wrenai/config.yaml
Persisted == LoadAll(files["home"])

\* a document has a field named like a raw key
HasRawKeyField(d) == Has(d.f, "api_key") \/ Has(d.f, "apiKey")

\* the last operation was updateLLMConfig by an admin, and it returned
UpdateReturned == last.op = "update" /\ last.admin /\ ~last.raised

\* the last operation was updateLLMConfig by an admin, and its writeConfig was refused
\* for want of an llm document
UpdateRejectedByValidation ==
    /\ last.op = "update" /\ last.admin /\ last.raised
    /\ last.out # <<>> /\ ~HasLlm(last.out)

\* the value a secrets file holds for a name
FileHolds(content, name, value) ==
    <<name>> \in EnvKeys(content) /\ EnvValue(content, <<name>>) = Tokens(value)

----------------------------------------------------------------------------
(* C1: an admin updateConfig with persistKey not false and a raw key, that   *)
(* succeeds, leaves (a) the secrets file mapping the chosen name to the key, *)
(* (b) api_key_env = that name in the persisted llm entry, (c) no raw key    *)
(* field in any persisted entry.                                             *)

C1_KeyExternalized ==
    (UpdateReturned /\ WantsPersist(last.arg) /\ CarriesKey(last.arg)) =>
        LET name == ChooseEnvVarName(last.arg)
        IN  /\ FileHolds(envFile.lines, name, KeyValue(last.arg))
            /\ \A i \in 1..Len(Persisted) :
                  IsLlm(Persisted[i]) =>
                      /\ Has(Persisted[i].f, "api_key_env")
                      /\ Persisted[i].f["api_key_env"] = name
            /\ \A i \in 1..Len(Persisted) : ~HasRawKeyField(Persisted[i])

----------------------------------------------------------------------------
(* C2: an admin updateConfig with persistKey = false never writes the        *)
(* secrets file, and the document it persists has no raw key field in any    *)
(* entry, wherever the field came from.                                      *)

C2_NoPersistLeavesNoKey ==
    (last.op = "update" /\ last.admin /\ ~WantsPersist(last.arg)) =>
        /\ ~last.wroteEnv
        /\ envFile = last.preEnv
        /\ ~last.raised => \A i \in 1..Len(Persisted) : ~HasRawKeyField(Persisted[i])

----------------------------------------------------------------------------
(* C3: writeConfig of a document set without an llm entry raises and leaves  *)
(* the configuration files alone, and an updateConfig that ends in such a    *)
(* refused write leaves the configuration files and the secrets file as they *)
(* were before the call.                                                     *)

C3_RejectedWriteTouchesNothing ==
    /\ (last.op = "write" /\ ~HasLlm(last.docs)) =>
           (last.raised /\ files = last.preFiles)
    /\ UpdateRejectedByValidation =>
           (files = last.preFiles /\ envFile = last.preEnv)

----------------------------------------------------------------------------
(* C4: when readConfig finds no readable, parseable candidate, it returns a  *)
(* single entry with type "llm" and non-empty models, stores it at the       *)
(* canonical path, a following readConfig returns the same, and getConfig    *)
(* and updateConfig take that entry for the llm entry.                       *)

C4_DefaultIsAnLlmEntry ==
    (last.op = "read" /\ ~last.raised /\ last.from = "default") =>
        /\ Len(last.docs) = 1
        /\ files["home"] = DumpAll(last.docs)
        /\ ReadConfig(files, overrideSet, homeOk).docs = last.docs
        /\ Has(last.docs[1].f, "models") /\ last.docs[1].f["models"] # <<>>
        /\ IsLlm(last.docs[1])
        /\ HasLlm(last.docs)

----------------------------------------------------------------------------
(* Masking, over documents with secrets at the top level and in models       *)

Opt(k, v) == IF v = "" THEN EmptyMap ELSE [x \in {k} |-> v]

\* the values of models in the documents masked
MaskModels ==
    { << >>,
      <<[model |-> "m1", kwargs |-> "kw"]>>,
      <<[model |-> "m1", api_key |-> "s3"]>>,
      <<[model |-> "m1", key |-> "s4", secret |-> "s5"],
        [model |-> "m2", password |-> "s6", token |-> "s7", apiKey |-> "s8"]>> }

\* llm documents: each secret-named field absent or holding a secret
MaskDocs ==
    { Spread([type |-> "llm", provider |-> "openai", models |-> ms],
             Spread(Opt("api_key", a), Spread(Opt("token", t), Spread(Opt("password", pw),
             Spread(Opt("api_key_env", e), Opt("active_model", am)))))) :
        a \in {"", "s1"}, t \in {"", "s2"}, pw \in {"", "s9"},
        e \in {"", "OPENAI_API_KEY"}, am \in {"", "m1"}, ms \in MaskModels }

InitMask ==
    /\ overrideSet = FALSE
    /\ homeOk = TRUE
    /\ \E d \in MaskDocs, others \in {<<>>, <<MapDoc(Embedder)>>} :
         files = [NoFiles EXCEPT !["home"] = Yaml(others \o <<MapDoc(d)>>)]
    /\ envFile = NoEnvFile /\ procEnv = NoProcEnv
    /\ last = [NoOp EXCEPT !.preFiles = files, !.preEnv = envFile]
    /\ envLog = <<>>
    /\ env0 = envFile
    /\ nops = 0
    /\ calls = NoCalls

SpecMask == InitMask /\ [][GetLLMConfig]_vars

----------------------------------------------------------------------------
(* Sequences of writeEnvVar calls                                            *)

\* the secrets files the sequences start from
EnvFiles0 ==
    { NoEnvFile,
      OldEnvFile,
      [exists |-> TRUE, lines |-> << <<"GOOGLE_API_KEY", "=", "g", "=", "1">>,
                                     <<" ", "OTHER", "=", "v2">>,
                                     <<"#", "OPENAI_API_KEY", "=", "no">> >>] }

WrittenNames == {"OPENAI_API_KEY", "AZURE_OPENAI_API_KEY", "GOOGLE_API_KEY"}

WrittenValues == {"sk1", "sk=2", "old"}

InitEnv ==
    /\ overrideSet = FALSE
    /\ homeOk = TRUE
    /\ files = NoFiles
    /\ envFile \in EnvFiles0
    /\ procEnv = NoProcEnv
    /\ last = [NoOp EXCEPT !.preFiles = files, !.preEnv = envFile]
    /\ envLog = <<>>
    /\ env0 = envFile
    /\ nops = 0
    /\ calls = NoCalls

\* writeEnvVar(varName, value), called on its own
WriteEnvVarCall ==
    /\ nops < MaxWrites /\ nops' = nops + 1
    /\ Frame
    /\ \E name \in WrittenNames, value \in WrittenValues :
         LET e == WriteEnvVar(envFile, homeOk, <<name>>, Tokens(value))
         IN  /\ envFile' = e.env
             /\ envLog' = IF e.wrote THEN Append(envLog, [k |-> <<name>>, v |-> Tokens(value)])
                          ELSE envLog
             /\ last' = [Began("writeEnv", TRUE, [name |-> name, value |-> value]) EXCEPT
                            !.raised = e.raised, !.wroteEnv = e.wrote]
    /\ UNCHANGED files

SpecEnv == InitEnv /\ [][WriteEnvVarCall]_vars

----------------------------------------------------------------------------
(* C5: the masked view getConfig returns holds the marker, not the original  *)
(* value, in every secret-named field of D that holds a secret (top level    *)
(* and each element of models), every other field as in D, and D is as it    *)
(* was.                                                                      *)

\* m is f with its secret-named fields masked and its other fields kept
MaskedAs(m, f) ==
    /\ DOMAIN m = DOMAIN f
    /\ \A k \in DOMAIN f \ {"models"} :
          IF k \in SecretKeys /\ f[k] # ""
          THEN m[k] = Marker /\ m[k] # f[k]
          ELSE m[k] = f[k]

C5_MaskedView ==
    (last.op = "get" /\ ~last.raised /\ HasLlm(last.docs)) =>
        LET D == SelectSeq(last.docs, IsLlm)
            M == last.out
        IN  /\ Len(M) = Len(D)
            /\ \A i \in 1..Len(D) :
                  /\ ~M[i].seq
                  /\ MaskedAs(M[i].f, D[i].f)
                  /\ Has(D[i].f, "models") =>
                        /\ Len(M[i].f["models"]) = Len(D[i].f["models"])
                        /\ \A j \in 1..Len(D[i].f["models"]) :
                              MaskedAs(M[i].f["models"][j], D[i].f["models"][j])
            /\ last.docs = LoadAll(last.preFiles["home"])
            /\ files = last.preFiles

C5_Witness ==
    /\ last.op = "get" /\ ~last.raised /\ HasLlm(last.docs)
    /\ \E i \in 1..Len(last.docs) :
          /\ IsLlm(last.docs[i])
          /\ Truthy(last.docs[i].f, "api_key") /\ Truthy(last.docs[i].f, "api_key_env")
          /\ Len(last.docs[i].f["models"]) = 2
          /\ Truthy(last.docs[i].f["models"][2], "token")

----------------------------------------------------------------------------
(* C6: switchNow persists nothing: after an admin switchNow the configuration *)
(* files at every location and the secrets file are as before the call, and  *)
(* getConfig returns what it would have returned before.                     *)

\* what getConfig returns from given files
GetView(fs) ==
    LET r == ReadConfig(fs, overrideSet, homeOk)
    IN  [raised |-> r.raised, view |-> IF r.raised THEN <<>> ELSE MaskedView(r.docs)]

C6_SwitchTouchesNoFile ==
    (last.op = "switch" /\ last.admin) =>
        /\ files = last.preFiles
        /\ envFile = last.preEnv
        /\ GetView(files) = GetView(last.preFiles)

\* C6, amended: an admin switchNow leaves the secrets file alone and stores its
\* update nowhere; a configuration file changes only as readConfig changes it: the
\* file at DEFAULT_CONFIG_PATH moved to the absent canonical path, or the default
\* file created there, and neither when the canonical file parses; getConfig returns
\* what it would have returned before.
C6_SwitchOnlyReads ==
    (last.op = "switch" /\ last.admin) =>
        LET src == DefaultConfigPath(overrideSet)
            pre == last.preFiles
            migrated == /\ pre["home"].st = "absent" /\ pre[src].st # "absent"
                        /\ files = [pre EXCEPT !["home"] = pre[src], ![src] = Absent]
            created  == /\ \A l \in Range(Candidates(overrideSet)) : ~Parses(pre[l])
                        /\ files["home"] = DefaultYaml
                        /\ \A l \in Locations \ {"home", src} : files[l] = pre[l]
                        /\ files[src] \in {pre[src], Absent}
        IN  /\ envFile = last.preEnv
            /\ files = pre \/ migrated \/ created
            /\ Parses(pre["home"]) => files = pre
            /\ GetView(files) = GetView(pre)

C6_Witness ==
    /\ last.op = "switch" /\ last.admin /\ ~last.raised
    /\ files # last.preFiles
    /\ last.out[1].f["active_model"] = "m2"

----------------------------------------------------------------------------
(* C7: the connectivity test takes a raw key of the payload first; else, for *)
(* payload.api_key_env = N, the value the secrets file holds for N, else the *)
(* process environment's value of N; else the first set name of Azure,       *)
(* OpenAI, Deepseek, OpenRouter.                                             *)

\* process.env of the first set name of the fallback list, in its order
Fallback ==
    IF procEnv["AZURE_OPENAI_API_KEY"] # "" THEN procEnv["AZURE_OPENAI_API_KEY"]
    ELSE IF procEnv["OPENAI_API_KEY"] # "" THEN procEnv["OPENAI_API_KEY"]
    ELSE IF procEnv["DEEPSEEK_API_KEY"] # "" THEN procEnv["DEEPSEEK_API_KEY"]
    ELSE procEnv["OPENROUTER_API_KEY"]

----------------------------------------------------------------------------
(* C8: readConfig migrates only when the candidate read and parsed is the    *)
(* project-local default path (3) and the canonical path does not exist; a   *)
(* read served from the override path (1), the canonical path (2) or the     *)
(* parent fallback (4), or a project-local file that does not parse, has no  *)
(* file created, overwritten or deleted by the migration.                    *)

\* the last readConfig copied a file to the canonical path and deleted it
Migrated ==
    \E src \in Locations \ {"home"} :
        /\ last.preFiles[src].st # "absent"
        /\ last.preFiles["home"].st = "absent"
        /\ files[src] = Absent
        /\ files["home"] = last.preFiles[src]

C8_MigrationOnlyFromParsedProjectFile ==
    last.op = "read" =>
        /\ Migrated => /\ last.from = "project"
                        /\ Parses(last.preFiles["project"])
                        /\ last.preFiles["home"].st = "absent"
        /\ last.from \in {"override", "home", "parent"} => files = last.preFiles

----------------------------------------------------------------------------
(* C9: an admin updateConfig that omits active_model keeps the active_model  *)
(* of the existing llm entry in the entry written to disk, and every other   *)
(* field of the (sanitized) update has the update's value there.             *)

C9_ActiveModelKept ==
    (UpdateReturned /\ ~Has(last.arg, "active_model")) =>
        /\ Len(Persisted) >= Len(last.docs)
        /\ \A i \in 1..Len(last.docs) :
              IsLlm(last.docs[i]) =>
                  /\ Truthy(last.docs[i].f, "active_model") =>
                        /\ Has(Persisted[i].f, "active_model")
                        /\ Persisted[i].f["active_model"] = last.docs[i].f["active_model"]
                  /\ \A k \in DOMAIN last.incoming \ {"active_model"} :
                        Has(Persisted[i].f, k) /\ Persisted[i].f[k] = last.incoming[k]

C9_Witness ==
    /\ UpdateReturned /\ ~Has(last.arg, "active_model")
    /\ \E i \in 1..Len(last.docs) :
          /\ IsLlm(last.docs[i])
          /\ Truthy(last.docs[i].f, "active_model")
          /\ Persisted[i].f["active_model"] = "m1"
          /\ Persisted[i].f["provider"] = "deepseek"
          /\ last.docs[i].f["provider"] = "openai"

----------------------------------------------------------------------------
(* C10: after any sequence of writeEnvVar calls the secrets file maps each   *)
(* written name to the value written last, and every other key it held      *)
(* before to the value it had; it holds no other key.                        *)

\* the names written by the calls of a log
LogNames(log) == {log[i].k : i \in 1..Len(log)}

\* the value the last call of a log wrote for a name
LastWritten(log, k) ==
    log[CHOOSE i \in 1..Len(log) :
          log[i].k = k /\ \A j \in (i + 1)..Len(log) : log[j].k # k].v

C10_Upsert ==
    envLog # <<>> =>
        LET before == IF env0.exists THEN env0.lines ELSE <<>>
        IN  /\ EnvKeys(envFile.lines) = EnvKeys(before) \cup LogNames(envLog)
            /\ \A k \in LogNames(envLog) :
                  EnvValue(envFile.lines, k) = LastWritten(envLog, k)
            /\ \A k \in EnvKeys(before) \ LogNames(envLog) :
                  EnvValue(envFile.lines, k) = EnvValue(before, k)

C10_Witness ==
    /\ Len(envLog) = 3
    /\ envLog[1].k = envLog[3].k /\ envLog[1].v # envLog[3].v
    /\ envLog[2].k # envLog[1].k
    /\ <<"OTHER">> \in EnvKeys(envFile.lines)
    /\ <<"TOKEN">> \in EnvKeys(envFile.lines)
    /\ EnvValue(envFile.lines, <<"TOKEN">>) = <<"a", "=", "b">>
    /\ EnvValue(envFile.lines, envLog[3].k) = <<"sk", "=", "2">>

----------------------------------------------------------------------------
(* C11: when writeEnvVar fails in an admin updateConfig that asked to store  *)
(* a provided key, the call raises and nothing is read-migrated or written:  *)
(* the configuration files at every location and the secrets file are as     *)
(* before the call, and the raw key is nowhere on disk where it was not       *)
(* before.                                                                   *)

\* the last operation was an admin updateLLMConfig whose writeEnvVar did not write
SecretWriteFailed ==
    /\ last.op = "update" /\ last.admin
    /\ WantsPersist(last.arg) /\ CarriesKey(last.arg)
    /\ ~last.wroteEnv

\* a value stands in a raw key field of some configuration file, or in the secrets file
KeyOnDisk(fs, env, v) ==
    \/ \E l \in Locations : \E i \in 1..Len(fs[l].docs) :
          \E k \in {"api_key", "apiKey"} :
             Has(fs[l].docs[i].f, k) /\ fs[l].docs[i].f[k] = v
    \/ \E k \in EnvKeys(env.lines) : EnvValue(env.lines, k) = Tokens(v)

C11_FailedSecretWriteAborts ==
    SecretWriteFailed =>
        /\ last.raised
        /\ files = last.preFiles
        /\ envFile = last.preEnv
        /\ ~KeyOnDisk(last.preFiles, last.preEnv, KeyValue(last.arg)) =>
              ~KeyOnDisk(files, envFile, KeyValue(last.arg))

\* the failed call would have migrated the project file and written the entry
C11_Witness ==
    /\ SecretWriteFailed /\ last.raised
    /\ homeOk
    /\ files["home"].st = "absent" /\ Parses(files["project"])
    /\ ~KeyOnDisk(files, envFile, KeyValue(last.arg))

----------------------------------------------------------------------------
(* C12: an admin switchNow never raises, whatever the configuration files,   *)
(* the canonical directory and the adaptor do: it returns a result.          *)

C12_SwitchNeverRaises ==
    (last.op = "switch" /\ last.admin) => ~last.raised

----------------------------------------------------------------------------
(* C13: no entry of the document stored at the canonical path has a          *)
(* persistKey field, after any sequence of calls.                            *)

C13_PersistKeyNotStored ==
    \A i \in 1..Len(Persisted) : ~Has(Persisted[i].f, "persistKey")

----------------------------------------------------------------------------
(* C14: a successful admin updateConfig writes back the documents it read    *)
(* with the first llm entry alone changed (the update's fields on it), every *)
(* other entry as it was and at its place; with no llm entry, the documents  *)
(* read followed by the sanitized update.                                    *)

\* the place of the first llm entry
FirstLlmIndex(docs) ==
    CHOOSE i \in 1..Len(docs) : IsLlm(docs[i]) /\ \A j \in 1..(i - 1) : ~IsLlm(docs[j])

C14_OnlyFirstLlmEntryChanges ==
    UpdateReturned =>
        IF HasLlm(last.docs)
        THEN /\ Len(Persisted) = Len(last.docs)
             /\ \A i \in 1..Len(last.docs) :
                   IF i = FirstLlmIndex(last.docs)
                   THEN \A k \in DOMAIN last.incoming :
                           Has(Persisted[i].f, k) /\ Persisted[i].f[k] = last.incoming[k]
                   ELSE Persisted[i] = last.docs[i]
        ELSE Persisted = Append(last.docs, MapDoc(last.incoming))

----------------------------------------------------------------------------
(* C16: a getConfig that follows a successful admin updateConfig at once     *)
(* returns an llm entry that has every non-secret field of the sanitized     *)
(* update with the update's value, whatever files the locations hold.        *)

\* the fields of the sanitized update that getConfig is to show
ShownFields(incoming) == DOMAIN incoming \ (SecretKeys \cup {"persistKey"})

\* a view holds an llm entry with these fields of the update
Reflects(view, incoming) ==
    \E i \in 1..Len(view) :
        /\ IsLlm(view[i])
        /\ \A k \in ShownFields(incoming) :
              Has(view[i].f, k) /\ view[i].f[k] = incoming[k]

C16_ReadAfterWrite ==
    [][(UpdateReturned /\ last'.op = "get") =>
           (~last'.raised /\ Reflects(last'.out, last.incoming))]_vars

----------------------------------------------------------------------------
(* Concurrent updateLLMConfig calls                                          *)
(*                                                                           *)
(* An async function runs without interruption from one await to the next.   *)
(* A call of updateLLMConfig that stores a key awaits readFile and then      *)
(* writeFile in writeEnvVar; every call awaits readConfig and then           *)
(* writeConfig.  The runs start with a canonical file that parses and no     *)
(* override path, so that readConfig is the one readFile it awaits first.    *)

\* the payloads of the concurrent calls: two that store a key, under different names,
\* and one that sets other fields
RaceUpdates ==
    { [provider |-> "deepseek", api_key |-> "sk1"],
      [type |-> "llm", provider |-> "Azure", apiKey |-> "sk=2"],
      [provider |-> "openrouter", api_base |-> "https://openrouter.ai/api"] }

InitRace ==
    /\ overrideSet = FALSE
    /\ homeOk = TRUE
    /\ files \in { [NoFiles EXCEPT !["home"] = Yaml(<<MapDoc(LlmHome)>>)],
                   [NoFiles EXCEPT !["home"] = Yaml(<<MapDoc(Embedder), MapDoc(LlmRaw)>>)] }
    /\ envFile \in {NoEnvFile, OldEnvFile}
    /\ procEnv = NoProcEnv
    /\ last = [NoOp EXCEPT !.preFiles = files, !.preEnv = envFile]
    /\ envLog = <<>>
    /\ env0 = envFile
    /\ nops = 0
    /\ calls = NoCalls

RaceFrame == UNCHANGED <<overrideSet, homeOk, procEnv, env0, nops, last>>

\* updateLLMConfig by an admin, up to its first await
BeginUpdate(c) ==
    /\ calls[c].pc = "idle"
    /\ \E u \in RaceUpdates :
         calls' = [calls EXCEPT ![c] =
                      IF WantsPersist(u) /\ CarriesKey(u)
                      THEN [@ EXCEPT !.pc = "readEnv", !.u = u, !.incoming = u]
                      ELSE [@ EXCEPT !.pc = "readConfig", !.u = u,
                                     !.incoming = Sanitized(u)]]
    /\ RaceFrame
    /\ UNCHANGED <<files, envFile, envLog>>

\* writeEnvVar: mkdir and readFile
ReadEnvFile(c) ==
    /\ calls[c].pc = "readEnv"
    /\ calls' = [calls EXCEPT ![c] =
                    [@ EXCEPT !.pc = "writeEnv",
                              !.content = IF envFile.exists THEN envFile.lines ELSE <<>>]]
    /\ RaceFrame
    /\ UNCHANGED <<files, envFile, envLog>>

\* writeEnvVar: the parse of the text read, kv[varName] = value, writeFile; then the
\* reference replaces the raw key in incoming
WriteEnvFile(c) ==
    /\ calls[c].pc = "writeEnv"
    /\ LET u    == calls[c].u
           name == <<ChooseEnvVarName(u)>>
       IN  IF homeOk
           THEN /\ envFile' = [exists |-> TRUE,
                               lines |-> WriteEnvVarText(calls[c].content, name,
                                                         Tokens(KeyValue(u)))]
                /\ envLog' = Append(envLog, [k |-> name, v |-> Tokens(KeyValue(u))])
                /\ calls' = [calls EXCEPT ![c] =
                                [@ EXCEPT !.pc = "readConfig", !.incoming = Sanitized(u)]]
           ELSE /\ calls' = [calls EXCEPT ![c] = [@ EXCEPT !.pc = "raised"]]
                /\ UNCHANGED <<envFile, envLog>>
    /\ RaceFrame
    /\ UNCHANGED files

\* await this.configService.readConfig()
ReadDocs(c) ==
    /\ calls[c].pc = "readConfig"
    /\ LET r == ReadConfig(files, overrideSet, homeOk)
       IN  /\ files' = r.fs
           /\ calls' = [calls EXCEPT ![c] =
                           IF r.raised THEN [@ EXCEPT !.pc = "raised"]
                           ELSE [@ EXCEPT !.pc = "writeConfig", !.docs = r.docs,
                                          !.since = {}]]
    /\ RaceFrame
    /\ UNCHANGED <<envFile, envLog>>

\* the documents written, were the merge done onto the canonical file as it is at the
\* write
DocsToWriteFresh(docs, fs, incoming) == NewDocs(LoadAll(fs["home"]), incoming)

\* newDocs: the merge onto the documents this call read
DocsToWrite(docs, fs, incoming) == NewDocs(docs, incoming)

\* the merge and await this.configService.writeConfig(newDocs)
WriteDocs(c) ==
    /\ calls[c].pc = "writeConfig"
    /\ LET w == WriteConfig(files, homeOk,
                            DocsToWrite(calls[c].docs, files, calls[c].incoming))
       IN  /\ files' = w.fs
           /\ calls' =
                 IF w.raised THEN [calls EXCEPT ![c] = [@ EXCEPT !.pc = "raised"]]
                 ELSE [d \in Calls |->
                         IF d = c THEN [calls[d] EXCEPT !.pc = "returned", !.lastW = TRUE]
                         ELSE [calls[d] EXCEPT
                                  !.lastW = FALSE,
                                  !.since = IF calls[d].pc = "writeConfig"
                                            THEN @ \cup {c} ELSE @]]
    /\ RaceFrame
    /\ UNCHANGED <<envFile, envLog>>

NextRace ==
    \E c \in Calls :
        \/ BeginUpdate(c)
        \/ ReadEnvFile(c)
        \/ WriteEnvFile(c)
        \/ ReadDocs(c)
        \/ WriteDocs(c)

SpecRace == InitRace /\ [][NextRace]_vars

----------------------------------------------------------------------------
(* C15: two concurrent admin updateConfig calls are not serialized.  When    *)
(* both have returned and the one that wrote last had read the document      *)
(* before the other wrote it, each llm entry of the persisted document has   *)
(* the last writer's fields, and each field that the other call alone set is *)
(* as the last writer read it: the other call's update is lost.              *)

\* c and d returned, c wrote last, and d wrote between c's read and c's write
Overwrote(c, d) ==
    /\ c # d
    /\ calls[c].pc = "returned" /\ calls[d].pc = "returned"
    /\ calls[c].lastW
    /\ d \in calls[c].since

C15_LastWriterWins ==
    \A c \in Calls, d \in Calls :
        Overwrote(c, d) =>
            /\ Len(Persisted) = Len(calls[c].docs)
            /\ \A i \in 1..Len(Persisted) :
                  IsLlm(Persisted[i]) =>
                      /\ \A k \in DOMAIN calls[c].incoming :
                            Persisted[i].f[k] = calls[c].incoming[k]
                      /\ \A k \in DOMAIN calls[d].incoming \ DOMAIN calls[c].incoming :
                            IF Has(calls[c].docs[i].f, k)
                            THEN /\ Has(Persisted[i].f, k)
                                 /\ Persisted[i].f[k] = calls[c].docs[i].f[k]
                            ELSE ~Has(Persisted[i].f, k)

\* both returned, and the persisted entry has the provider and key reference of the
\* call that wrote last and nothing of the api_base the other call set
C15_Witness ==
    \E c \in Calls, d \in Calls :
        /\ Overwrote(c, d)
        /\ Has(calls[d].incoming, "api_base") /\ ~Has(calls[c].incoming, "api_base")
        /\ \E i \in 1..Len(Persisted) :
              /\ IsLlm(Persisted[i])
              /\ ~Has(Persisted[i].f, "api_base")
              /\ Persisted[i].f["provider"] = calls[c].incoming["provider"]
              /\ Persisted[i].f["provider"] # calls[d].incoming["provider"]

----------------------------------------------------------------------------
(* C17: in every state of every interleaving of admin updateConfig calls, a  *)
(* persisted llm entry whose api_key_env names a key that updateConfig       *)
(* stored refers to a name the secrets file holds.                           *)

C17_NoDanglingReference ==
    \A i \in 1..Len(Persisted) :
        ( /\ IsLlm(Persisted[i])
          /\ Truthy(Persisted[i].f, "api_key_env")
          /\ <<Persisted[i].f["api_key_env"]>> \in LogNames(envLog) ) =>
            <<Persisted[i].f["api_key_env"]>> \in EnvKeys(envFile.lines)

====
